---------------------------- MODULE Spec2Model ----------------------------
(***************************************************************************)
(* A model of package slog: the LogLevel type and its String method, the   *)
(* global minimum level guarded by globalLogLevelMutex (a sync.RWMutex),   *)
(* and Logger.logf with the five level methods that call it.               *)
(*                                                                         *)
(* Text is modelled as sequences of one-character strings, so that the     *)
(* formatting done by the code is computed, byte for byte, by the model.   *)
(***************************************************************************)
EXTENDS Integers, Sequences, FiniteSets, TLC

(***************************************************************************)
(* Bounds of the model.                                                    *)
(***************************************************************************)
\* Number of goroutines that call into the package.
NumProcs == 2
\* Logging calls each goroutine issues (messagesPerGoroutine in the test).
MsgsPerCaller == 2
\* Logging calls each goroutine issues in the full specification.
MaxLogCalls == 1
\* Number of distinct readings of the wall clock.
NumTimes == 1
\* The sink takes at most this many bytes in one step of a Write.
ChunkLen == 24
\* LogLevel.String is applied to the values -StrRange .. StrRange.
StrRange == 120

(***************************************************************************)
(* LogLevel and its String method.                                         *)
(***************************************************************************)
ERROR == 0
WARN == 1
INFO == 2
DEBUG == 3
FINE == 4

\* The levels of the five Logger methods.
Levels == {ERROR, WARN, INFO, DEBUG, FINE}

\* log.LstdFlags = Ldate | Ltime, the flags NewLogger passes to log.New.
LstdFlags == 3

Digits == <<"0", "1", "2", "3", "4", "5", "6", "7", "8", "9">>

\* The digits of u >= 0, least significant digit produced first (fmt's fmtInteger).
RECURSIVE UDigits(_)
UDigits(u) ==
    IF u < 10 THEN <<Digits[u + 1]>>
    ELSE UDigits(u \div 10) \o <<Digits[(u % 10) + 1]>>

\* A %d that loses the sign.
FmtD_DropsSign(n) ==
    IF n < 0 THEN UDigits(0 - n) ELSE UDigits(n)

\* The verb %d applied to an integer.
FmtD(n) ==
    IF n < 0 THEN <<"-">> \o UDigits(0 - n) ELSE UDigits(n)

UnknownPrefix ==
    <<"U", "N", "K", "N", "O", "W", "N", "_", "L", "O", "G", "_",
      "L", "E", "V", "E", "L", "(">>

\* func (l LogLevel) String() string
String(l) ==
    CASE l = ERROR -> <<"E", "R", "R", "O", "R">>
      [] l = WARN -> <<"W", "A", "R", "N">>
      [] l = INFO -> <<"I", "N", "F", "O">>
      [] l = DEBUG -> <<"D", "E", "B", "U", "G">>
      [] l = FINE -> <<"F", "I", "N", "E">>
      [] OTHER -> UnknownPrefix \o FmtD(l) \o <<")">>

Missing == <<"%", "!", "d", "(", "M", "I", "S", "S", "I", "N", "G", ")">>

RECURSIVE ExtraArgs(_)
ExtraArgs(a) ==
    IF a = <<>> THEN <<>>
    ELSE <<"i", "n", "t", "=">> \o FmtD(Head(a))
         \o (IF Len(a) > 1 THEN <<",", " ">> ELSE <<>>) \o ExtraArgs(Tail(a))

\* fmt.Sprintf for a template whose only verb is %d and integer arguments.
RECURSIVE Sprintf(_, _)
Sprintf(f, a) ==
    IF f = <<>> THEN
        IF a = <<>> THEN <<>>
        ELSE <<"%", "!", "(", "E", "X", "T", "R", "A", " ">> \o ExtraArgs(a) \o <<")">>
    ELSE IF Head(f) = "%" /\ Len(f) >= 2 /\ f[2] = "d" THEN
        IF a = <<>> THEN Missing \o Sprintf(Tail(Tail(f)), a)
        ELSE FmtD(Head(a)) \o Sprintf(Tail(Tail(f)), Tail(a))
    ELSE <<Head(f)>> \o Sprintf(Tail(f), a)

(***************************************************************************)
(* The standard library's log.Logger, as far as Logger.logf uses it.       *)
(***************************************************************************)
\* The readings of time.Now() that log.Logger.Printf may take.
Clock ==
    {[year |-> 2009, month |-> 11, day |-> 10, hour |-> 23, min |-> 0, sec |-> s] :
        s \in 0 .. (NumTimes - 1)}

\* log's itoa: i in decimal, zero-padded to wid digits.
Pad(i, wid) ==
    LET d == UDigits(i)
    IN  [k \in 1 .. (IF Len(d) < wid THEN wid - Len(d) ELSE 0) |-> "0"] \o d

\* log's formatHeader: nothing for flags 0, "2009/11/10 23:00:00 " for LstdFlags.
Header(flags, t) ==
    IF flags = 0 THEN <<>>
    ELSE Pad(t.year, 4) \o <<"/">> \o Pad(t.month, 2) \o <<"/">> \o Pad(t.day, 2)
         \o <<" ">> \o Pad(t.hour, 2) \o <<":">> \o Pad(t.min, 2) \o <<":">>
         \o Pad(t.sec, 2) \o <<" ">>

\* The bytes log.Logger.Printf hands to one Write: header, text, and a newline
\* unless the text already ends with one.
Output(flags, t, text) ==
    LET b == Header(flags, t) \o text
    IN  IF Len(b) = 0 \/ b[Len(b)] # "\n" THEN b \o <<"\n">> ELSE b

(***************************************************************************)
(* Logger                                                                  *)
(***************************************************************************)
\* The component labels Loggers are built with; the empty one means no label.
Components == {<<>>, <<"D", "B">>}

\* func NewLogger(component string, output *os.File) *Logger
NewLogger(component, output) ==
    [component |-> component,
     out |-> IF output = "nil" THEN "os.Stdout" ELSE output,
     flags |-> LstdFlags]

\* func newTestLogger(output io.Writer, component string) *Logger
newTestLogger(output, component) ==
    [component |-> component, out |-> output, flags |-> 0]

\* The Loggers a program or a test can build.
Loggers ==
    {NewLogger(c, o) : c \in Components, o \in {"nil", "file"}}
        \cup {newTestLogger("buf", c) : c \in Components}

\* The Logger of TestLoggerFiltering, with a shorter label.
TestLoggers == {newTestLogger("buf", <<"D", "B">>)}

\* A gate that also drops the messages at the threshold.
Suppressed_AtThreshold(level, threshold) == level >= threshold

\* A gate with the comparison turned around.
Suppressed_Inverted(level, threshold) == level < threshold

\* logf's test `level > GetGlobalMinLevel()`: TRUE when the message is dropped.
Suppressed(level, threshold) == level > threshold

\* A prefix that brackets the component even when it is empty.
Prefix_AlwaysComponent(level, component) ==
    <<"[">> \o String(level) \o <<"]">> \o <<"[">> \o component \o <<"]">>

\* logf's prefix: [LEVEL], then [COMPONENT] when the component is not empty.
Prefix(level, component) ==
    LET levelPart == <<"[">> \o String(level) \o <<"]">>
    IN  IF component # <<>> THEN levelPart \o <<"[">> \o component \o <<"]">>
        ELSE levelPart

\* The format string the callers log with, "g%d:%d" (goroutine, message number).
Template == <<"g", "%", "d", ":", "%", "d">>

\* The text logf passes to Printf("%s %s", prefix, fmt.Sprintf(msg, params...)).
LogText(level, component, msg, params) ==
    Prefix(level, component) \o <<" ">> \o Sprintf(msg, params)

(***************************************************************************)
(* State                                                                   *)
(***************************************************************************)
Procs == 1 .. NumProcs

\* The levels SetGlobalMinLevel is called with.
SetLevels == Levels

VARIABLES
    globalLogLevel,        \* var globalLogLevel LogLevel
    globalLogLevelMutex,   \* var globalLogLevelMutex sync.RWMutex: [w, readers]
    logger,                \* the Logger: [component, out, flags]
    sink,                  \* the bytes written to logger.out so far
    outMu,                 \* log.Logger's mutex around Write: the set of its holders
    frame,                 \* per goroutine: the call it is in and where
    seq,                   \* per goroutine: logging calls issued so far
    settled,               \* <<X>> after a SetGlobalMinLevel(X) that overlapped no other
                           \* set call has returned and no set call has started since
    overlap,               \* whether the set calls in progress overlapped one another
    lastLockArg,           \* <<X>>: the argument of the last call to take the write lock
    quiet,                 \* per goroutine: no set call was in progress when its get or
                           \* logging call began, and none has begun since
    strIn,                 \* the value LogLevel.String is applied to
    strOut                 \* its result

vars ==
    <<globalLogLevel, globalLogLevelMutex, logger, sink, outMu, frame, seq, settled,
      overlap, lastLockArg, quiet, strIn, strOut>>

ghost == <<settled, overlap, lastLockArg, quiet>>

\* A goroutine that is in none of the package's functions.
Idle ==
    [op |-> "none", pc |-> "idle", level |-> <<>>, ret |-> <<>>, params |-> <<>>,
     buf |-> <<>>, off |-> 0]

SetInProgress(others) == \E q \in others : frame[q].op = "set"

InitWith(level, hist, loggers, inputs) ==
    /\ globalLogLevel = level
    /\ globalLogLevelMutex = [w |-> {}, readers |-> {}]
    /\ logger \in loggers
    /\ sink = <<>>
    /\ outMu = {}
    /\ frame = [p \in Procs |-> Idle]
    /\ seq = [p \in Procs |-> 0]
    /\ settled = hist
    /\ overlap = FALSE
    /\ lastLockArg = hist
    /\ quiet = [p \in Procs |-> FALSE]
    /\ strIn \in inputs
    /\ strOut = <<>>

\* var globalLogLevel LogLevel = INFO; no call has been made yet.
Init == InitWith(INFO, <<>>, TestLoggers, {0})

(***************************************************************************)
(* SetGlobalMinLevel                                                       *)
(***************************************************************************)
\* A goroutine calls SetGlobalMinLevel(level).
SetCall(p, level) ==
    /\ frame[p].pc = "idle"
    /\ frame' = [frame EXCEPT ![p] = [Idle EXCEPT !.op = "set", !.pc = "lock",
                                                  !.level = <<level>>]]
    /\ settled' = <<>>
    /\ overlap' = SetInProgress(Procs \ {p})
    /\ quiet' = [q \in Procs |-> FALSE]
    /\ UNCHANGED <<globalLogLevel, globalLogLevelMutex, logger, sink, outMu, seq,
                   lastLockArg, strIn, strOut>>

\* A Lock without the writer mutex.
WriterMayAnnounce_Always(m) == TRUE

\* RWMutex.Lock, first half: take the writer mutex and announce the writer.
\* From here on new readers wait.
WriterMayAnnounce(m) == m.w = {}

SetLock(p) ==
    /\ frame[p].pc = "lock"
    /\ WriterMayAnnounce(globalLogLevelMutex)
    /\ globalLogLevelMutex' = [globalLogLevelMutex EXCEPT !.w = {p}]
    /\ frame' = [frame EXCEPT ![p].pc = "wwait"]
    /\ UNCHANGED <<globalLogLevel, logger, sink, outMu, seq, ghost, strIn, strOut>>

\* A Lock that does not wait for the readers.
WriterMayEnter_Always(m) == TRUE

\* RWMutex.Lock, second half: wait until the active readers have left.
WriterMayEnter(m) == m.readers = {}

SetLockAcquired(p) ==
    /\ frame[p].pc = "wwait"
    /\ WriterMayEnter(globalLogLevelMutex)
    /\ frame' = [frame EXCEPT ![p].pc = "store"]
    /\ lastLockArg' = frame[p].level
    /\ UNCHANGED <<globalLogLevel, globalLogLevelMutex, logger, sink, outMu, seq,
                   settled, overlap, quiet, strIn, strOut>>

\* A store that is lost: the assignment goes to a local of the same name.
SetStore_Lost(p) ==
    /\ frame[p].pc = "store"
    /\ frame' = [frame EXCEPT ![p].pc = "unlock"]
    /\ UNCHANGED <<globalLogLevel, globalLogLevelMutex, logger, sink, outMu, seq, ghost,
                   strIn, strOut>>

\* globalLogLevel = level
SetStore(p) ==
    /\ frame[p].pc = "store"
    /\ globalLogLevel' = frame[p].level[1]
    /\ frame' = [frame EXCEPT ![p].pc = "unlock"]
    /\ UNCHANGED <<globalLogLevelMutex, logger, sink, outMu, seq, ghost, strIn, strOut>>

\* A return without the deferred Unlock.
SetUnlock_Missing(p) ==
    /\ frame[p].pc = "unlock"
    /\ frame' = [frame EXCEPT ![p] = Idle]
    /\ settled' = IF overlap THEN <<>> ELSE frame[p].level
    /\ UNCHANGED <<globalLogLevel, globalLogLevelMutex, logger, sink, outMu, seq,
                   overlap, lastLockArg, quiet, strIn, strOut>>

\* The deferred RWMutex.Unlock and the return: the readers that waited for the
\* writer are let in together, then the writer mutex is released.
SetUnlock(p) ==
    /\ frame[p].pc = "unlock"
    /\ globalLogLevelMutex' =
           [w |-> {}, readers |-> {q \in Procs : frame[q].pc = "rblocked"}]
    /\ frame' = [q \in Procs |->
                    IF q = p THEN Idle
                    ELSE IF frame[q].pc = "rblocked" THEN [frame[q] EXCEPT !.pc = "read"]
                    ELSE frame[q]]
    /\ settled' = IF overlap THEN <<>> ELSE frame[p].level
    /\ UNCHANGED <<globalLogLevel, logger, sink, outMu, seq, overlap, lastLockArg,
                   quiet, strIn, strOut>>

(***************************************************************************)
(* GetGlobalMinLevel, called directly (op "get") or by logf (op "log")     *)
(***************************************************************************)
GetCall(p) ==
    /\ frame[p].pc = "idle"
    /\ frame' = [frame EXCEPT ![p] = [Idle EXCEPT !.op = "get", !.pc = "rlock"]]
    /\ quiet' = [quiet EXCEPT ![p] = ~SetInProgress(Procs)]
    /\ UNCHANGED <<globalLogLevel, globalLogLevelMutex, logger, sink, outMu, seq,
                   settled, overlap, lastLockArg, strIn, strOut>>

\* An RLock that does not wait for the writer.
ReaderMayEnter_Always(m) == TRUE

\* RWMutex.RLock: enter, or wait when a writer has announced itself.
ReaderMayEnter(m) == m.w = {}

GetRLock(p) ==
    /\ frame[p].pc = "rlock"
    /\ IF ReaderMayEnter(globalLogLevelMutex)
       THEN /\ globalLogLevelMutex' =
                   [globalLogLevelMutex EXCEPT !.readers = @ \cup {p}]
            /\ frame' = [frame EXCEPT ![p].pc = "read"]
       ELSE /\ frame' = [frame EXCEPT ![p].pc = "rblocked"]
            /\ UNCHANGED globalLogLevelMutex
    /\ UNCHANGED <<globalLogLevel, logger, sink, outMu, seq, ghost, strIn, strOut>>

\* return globalLogLevel: the result is read inside the read section.
GetRead(p) ==
    /\ frame[p].pc = "read"
    /\ frame' = [frame EXCEPT ![p].ret = <<globalLogLevel>>, ![p].pc = "runlock"]
    /\ UNCHANGED <<globalLogLevel, globalLogLevelMutex, logger, sink, outMu, seq, ghost,
                   strIn, strOut>>

\* The deferred RWMutex.RUnlock and the return, to the caller or into logf.
GetRUnlock(p) ==
    /\ frame[p].pc = "runlock"
    /\ globalLogLevelMutex' = [globalLogLevelMutex EXCEPT !.readers = @ \ {p}]
    /\ IF frame[p].op = "get"
       THEN /\ frame' = [frame EXCEPT ![p] = Idle]
            /\ quiet' = [quiet EXCEPT ![p] = FALSE]
       ELSE /\ frame' = [frame EXCEPT ![p].pc = "gate"]
            /\ UNCHANGED quiet
    /\ UNCHANGED <<globalLogLevel, logger, sink, outMu, seq, settled, overlap,
                   lastLockArg, strIn, strOut>>

(***************************************************************************)
(* Logger.logf and the level methods                                       *)
(***************************************************************************)
\* l.logf(level, msg, params...) is entered; it calls GetGlobalMinLevel first.
\* The p-th goroutine's n-th message is Template with the arguments p, n.
logfCall(p, level) ==
    /\ frame[p].pc = "idle"
    /\ frame' = [frame EXCEPT ![p] = [Idle EXCEPT !.op = "log", !.pc = "rlock",
                                                  !.level = <<level>>,
                                                  !.params = <<p, seq[p]>>]]
    /\ seq' = [seq EXCEPT ![p] = @ + 1]
    /\ quiet' = [quiet EXCEPT ![p] = ~SetInProgress(Procs)]
    /\ UNCHANGED <<globalLogLevel, globalLogLevelMutex, logger, sink, outMu, settled,
                   overlap, lastLockArg, strIn, strOut>>

Error(p) == logfCall(p, ERROR)

Warn(p) == logfCall(p, WARN)

Info(p) == logfCall(p, INFO)

Debug(p) == logfCall(p, DEBUG)

Fine(p) == logfCall(p, FINE)

\* The gate, and for a message that passes it the formatting: logf builds the
\* text, Printf reads the clock and builds the bytes of the line.
logfGate(p) ==
    /\ frame[p].pc = "gate"
    /\ IF Suppressed(frame[p].level[1], frame[p].ret[1])
       THEN /\ frame' = [frame EXCEPT ![p] = Idle]
            /\ quiet' = [quiet EXCEPT ![p] = FALSE]
       ELSE /\ \E t \in Clock :
                   frame' = [frame EXCEPT
                       ![p].pc = "outlock",
                       ![p].buf = Output(logger.flags, t,
                                         LogText(frame[p].level[1], logger.component,
                                                 Template, frame[p].params))]
            /\ UNCHANGED quiet
    /\ UNCHANGED <<globalLogLevel, globalLogLevelMutex, logger, sink, outMu, seq,
                   settled, overlap, lastLockArg, strIn, strOut>>

\* A Write without log.Logger's mutex.
WriterOfSinkMayEnter_Always(mu) == TRUE

\* l.outMu.Lock() in log.Logger's output.
WriterOfSinkMayEnter(mu) == mu = {}

OutLock(p) ==
    /\ frame[p].pc = "outlock"
    /\ WriterOfSinkMayEnter(outMu)
    /\ outMu' = outMu \cup {p}
    /\ frame' = [frame EXCEPT ![p].pc = "write"]
    /\ UNCHANGED <<globalLogLevel, globalLogLevelMutex, logger, sink, seq, ghost,
                   strIn, strOut>>

\* l.out.Write(buf): the sink takes the bytes in pieces of at most ChunkLen.
Write(p) ==
    /\ frame[p].pc = "write"
    /\ LET left == Len(frame[p].buf) - frame[p].off
           n == IF left < ChunkLen THEN left ELSE ChunkLen
       IN  /\ sink' = sink \o SubSeq(frame[p].buf, frame[p].off + 1, frame[p].off + n)
           /\ frame' = [frame EXCEPT
                  ![p].off = @ + n,
                  ![p].pc = IF n = left THEN "outunlock" ELSE "write"]
    /\ UNCHANGED <<globalLogLevel, globalLogLevelMutex, logger, outMu, seq, ghost,
                   strIn, strOut>>

\* The deferred l.outMu.Unlock(), and the return from Printf, logf and the method.
OutUnlock(p) ==
    /\ frame[p].pc = "outunlock"
    /\ outMu' = outMu \ {p}
    /\ frame' = [frame EXCEPT ![p] = Idle]
    /\ quiet' = [quiet EXCEPT ![p] = FALSE]
    /\ UNCHANGED <<globalLogLevel, globalLogLevelMutex, logger, sink, seq, settled,
                   overlap, lastLockArg, strIn, strOut>>

(***************************************************************************)
(* Specifications                                                          *)
(***************************************************************************)
\* What a goroutine does inside a call, once it has made it.
Step(p) ==
    \/ SetLock(p)
    \/ SetLockAcquired(p)
    \/ SetStore(p)
    \/ SetUnlock(p)
    \/ GetRLock(p)
    \/ GetRead(p)
    \/ GetRUnlock(p)
    \/ logfGate(p)
    \/ OutLock(p)
    \/ Write(p)
    \/ OutUnlock(p)

\* Any number of goroutines call SetGlobalMinLevel, GetGlobalMinLevel and the
\* level methods of one Logger, in any order and at any time.
Next ==
    \/ \E p \in Procs, level \in SetLevels : SetCall(p, level)
    \/ \E p \in Procs : SetLock(p)
    \/ \E p \in Procs : SetLockAcquired(p)
    \/ \E p \in Procs : SetStore(p)
    \/ \E p \in Procs : SetUnlock(p)
    \/ \E p \in Procs : GetCall(p)
    \/ \E p \in Procs : GetRLock(p)
    \/ \E p \in Procs : GetRead(p)
    \/ \E p \in Procs : GetRUnlock(p)
    \/ \E p \in Procs : seq[p] < MaxLogCalls /\ Error(p)
    \/ \E p \in Procs : seq[p] < MaxLogCalls /\ Warn(p)
    \/ \E p \in Procs : seq[p] < MaxLogCalls /\ Info(p)
    \/ \E p \in Procs : seq[p] < MaxLogCalls /\ Debug(p)
    \/ \E p \in Procs : seq[p] < MaxLogCalls /\ Fine(p)
    \/ \E p \in Procs : logfGate(p)
    \/ \E p \in Procs : OutLock(p)
    \/ \E p \in Procs : Write(p)
    \/ \E p \in Procs : OutUnlock(p)

Spec == Init /\ [][Next]_vars

\* What the scheduler and the locks guarantee: a goroutine that can take a step
\* takes one, and a goroutine waiting for a sync.Mutex (the writer mutex inside
\* the RWMutex, log.Logger's outMu) gets it in the end, because a waiter that
\* has waited long enough is handed the mutex by the next Unlock.
Fairness ==
    \A p \in Procs :
        /\ WF_vars(Step(p))
        /\ SF_vars(SetLock(p))
        /\ SF_vars(OutLock(p))

\* The calls of TestLoggerThreadSafety: set calls, get calls, and logging through
\* Info alone.
NextLive ==
    \/ \E p \in Procs, level \in SetLevels : SetCall(p, level)
    \/ \E p \in Procs : GetCall(p)
    \/ \E p \in Procs : seq[p] < MaxLogCalls /\ Info(p)
    \/ \E p \in Procs : Step(p)

LiveSpec == Init /\ [][NextLive]_vars /\ Fairness

\* TestLoggerThreadSafety: SetGlobalMinLevel(FINE) has returned, and the
\* goroutines then log through one Logger, MsgsPerCaller messages each.
InitConc == InitWith(FINE, <<FINE>>, Loggers, {0})

NextConc ==
    \/ \E p \in Procs : seq[p] < MsgsPerCaller /\ Info(p)
    \/ \E p \in Procs : GetRLock(p)
    \/ \E p \in Procs : GetRead(p)
    \/ \E p \in Procs : GetRUnlock(p)
    \/ \E p \in Procs : logfGate(p)
    \/ \E p \in Procs : OutLock(p)
    \/ \E p \in Procs : Write(p)
    \/ \E p \in Procs : OutUnlock(p)

SpecConc == InitConc /\ [][NextConc]_vars

\* TestLoggerMessageFormatting: SetGlobalMinLevel(FINE) has returned, and the
\* Logger, with or without a component, logs through each of its five methods.
NextFormat ==
    \/ \E p \in Procs : seq[p] < MaxLogCalls /\ Error(p)
    \/ \E p \in Procs : seq[p] < MaxLogCalls /\ Warn(p)
    \/ \E p \in Procs : seq[p] < MaxLogCalls /\ Info(p)
    \/ \E p \in Procs : seq[p] < MaxLogCalls /\ Debug(p)
    \/ \E p \in Procs : seq[p] < MaxLogCalls /\ Fine(p)
    \/ \E p \in Procs : GetRLock(p)
    \/ \E p \in Procs : GetRead(p)
    \/ \E p \in Procs : GetRUnlock(p)
    \/ \E p \in Procs : logfGate(p)
    \/ \E p \in Procs : OutLock(p)
    \/ \E p \in Procs : Write(p)
    \/ \E p \in Procs : OutUnlock(p)

SpecFormat == InitConc /\ [][NextFormat]_vars

\* TestLogLevelStringer: String applied to one value of the type.
InitStr == InitWith(INFO, <<>>, TestLoggers, (0 - StrRange) .. StrRange)

ApplyString ==
    /\ strOut = <<>>
    /\ strOut' = String(strIn)
    /\ UNCHANGED <<globalLogLevel, globalLogLevelMutex, logger, sink, outMu, frame, seq,
                   ghost, strIn>>

NextStr == ApplyString

SpecStr == InitStr /\ [][NextStr]_vars

(***************************************************************************)
(* Reading the sink                                                        *)
(***************************************************************************)
\* The positions of the newlines in s.
NL(s) == {i \in 1 .. Len(s) : s[i] = "\n"}

\* The line that the newline at position i ends, without the newline.
LineEnding(s, i) ==
    LET before == {j \in NL(s) : j < i}
        start == IF before = {} THEN 1
                 ELSE (CHOOSE j \in before : \A k \in before : k <= j) + 1
    IN  SubSeq(s, start, i - 1)

HasSuffix(l, x) ==
    /\ Len(l) >= Len(x)
    /\ SubSeq(l, Len(l) - Len(x) + 1, Len(l)) = x

\* The names of the five levels, by rank.
LevelName ==
    <<<<"E", "R", "R", "O", "R">>, <<"W", "A", "R", "N">>, <<"I", "N", "F", "O">>,
      <<"D", "E", "B", "U", "G">>, <<"F", "I", "N", "E">>>>

\* The text of goroutine g's n-th message (g and n below ten).
MsgText(g, n) == <<"g", Digits[g + 1], ":", Digits[n + 1]>>

\* [LEVEL][component] message, or [LEVEL] message for the empty component.
Form(lv, comp, text) ==
    IF comp = <<>> THEN <<"[">> \o LevelName[lv + 1] \o <<"]", " ">> \o text
    ELSE <<"[">> \o LevelName[lv + 1] \o <<"]", "[">> \o comp \o <<"]", " ">> \o text

IsDigit(c) == \E k \in 1 .. 10 : Digits[k] = c

\* The shape of the stamp of log.LstdFlags: "YYYY/MM/DD hh:mm:ss ".
IsStamp(h) ==
    /\ Len(h) = 20
    /\ h[5] = "/" /\ h[8] = "/" /\ h[11] = " " /\ h[14] = ":" /\ h[17] = ":"
    /\ h[20] = " "
    /\ \A k \in (1 .. 19) \ {5, 8, 11, 14, 17} : IsDigit(h[k])

\* The line l is body, after the stamp if the Logger's flags ask for one.
IsLineOf(l, flags, body) ==
    IF flags = 0 THEN l = body
    ELSE /\ Len(l) > 20
         /\ IsStamp(SubSeq(l, 1, 20))
         /\ SubSeq(l, 21, Len(l)) = body

\* Some complete line of s carries goroutine g's n-th message.
Emitted(s, g, n) == \E i \in NL(s) : HasSuffix(LineEnding(s, i), <<" ">> \o MsgText(g, n))

\* Goroutine p returns from a logging call in this step.
LogReturns(p) == frame[p].op = "log" /\ frame'[p].pc = "idle"

InWriteSection(p) == frame[p].pc \in {"store", "unlock"}

InReadSection(p) == frame[p].pc \in {"read", "runlock"}

(***************************************************************************)
(* Properties                                                              *)
(***************************************************************************)
\* C1: a logging call of level L made while the threshold is settled at T (a
\* SetGlobalMinLevel(T) has returned and no set call runs from the start of the
\* logging call to its return) has put its line into the sink when it returns
\* if and only if L <= T; the line was not there when the call began.
C1_EmittedIffAdmitted ==
    [][\A p \in Procs :
          /\ (frame[p].pc = "idle" /\ frame'[p].op = "log")
                 => ~Emitted(sink, frame'[p].params[1], frame'[p].params[2])
          /\ (LogReturns(p) /\ quiet[p] /\ settled # <<>>)
                 => (Emitted(sink', frame[p].params[1], frame[p].params[2])
                         <=> frame[p].level[1] <= settled[1])]_vars

\* C1's case: with the threshold settled, one logging call has written its line
\* and is about to return while another is about to be dropped at the gate.
C1_Witness ==
    \E p, q \in Procs :
        /\ settled # <<>>
        /\ quiet[p] /\ frame[p].pc = "outunlock"
        /\ quiet[q] /\ frame[q].pc = "gate" /\ frame[q].level[1] > settled[1]

\* C2: a GetGlobalMinLevel call that begins after a SetGlobalMinLevel(X) has
\* returned, with no set call running since, returns X.
C2_RoundTrip ==
    \A p \in Procs :
        (frame[p].op = "get" /\ frame[p].pc = "runlock" /\ quiet[p] /\ settled # <<>>)
            => frame[p].ret = settled

\* C2's case: a get call is about to return after a set call to a level other
\* than the default, itself made after logging.
C2_Witness ==
    \E p \in Procs :
        /\ frame[p].op = "get" /\ frame[p].pc = "runlock" /\ quiet[p]
        /\ settled = <<DEBUG>>
        /\ sink # <<>>

\* C4: the value a GetGlobalMinLevel call reads is the default INFO when no set
\* call has taken the write lock, and otherwise the argument of the set call
\* that took the write lock last before the read: never a value nobody set.
C4_ReadsWhatWasSet ==
    \A p \in Procs :
        frame[p].pc = "runlock"
            => frame[p].ret = (IF lastLockArg = <<>> THEN <<INFO>> ELSE lastLockArg)

\* C4's case: a reader holds a value other than the default while a writer has
\* announced itself and waits for the reader to leave.
C4_Witness ==
    \E p, q \in Procs :
        /\ frame[p].pc = "runlock" /\ frame[p].ret # <<INFO>>
        /\ frame[q].pc = "wwait"

\* C5: at most one SetGlobalMinLevel call is inside its critical section, and
\* while one is, no GetGlobalMinLevel call, logf's included, is inside its read
\* section.
C5_LockDiscipline ==
    /\ Cardinality({p \in Procs : InWriteSection(p)}) <= 1
    /\ (\E p \in Procs : InWriteSection(p)) => ~(\E q \in Procs : InReadSection(q))

\* C5's case: a direct get call and logf's get call are inside their read
\* sections at the same time.
C5_Witness ==
    \E p, q \in Procs :
        /\ frame[p].op = "get" /\ InReadSection(p)
        /\ frame[q].op = "log" /\ InReadSection(q)

\* C6: every call that has begun returns.
C6_EveryCallReturns ==
    \A p \in Procs : (frame[p].pc # "idle") ~> (frame[p].pc = "idle")

\* C6's case: a reader waits for a writer that is inside its critical section.
C6_Witness ==
    \E p, q \in Procs : frame[p].pc = "rblocked" /\ InWriteSection(q)

\* C9: no step of a logging call changes the global level or the Logger, no
\* step up to and including the gate changes the sink, and a call whose level
\* is greater than the threshold it read returns at the gate.
C9_Frame ==
    [][\A p \in Procs :
          ((frame[p].op = "log" \/ frame'[p].op = "log") /\ frame'[p] # frame[p])
              => /\ globalLogLevel' = globalLogLevel
                 /\ logger' = logger
                 /\ frame[p].pc \in {"idle", "rlock", "rblocked", "read", "runlock", "gate"}
                        => sink' = sink
                 /\ (frame[p].pc = "gate" /\ frame[p].level[1] > frame[p].ret[1])
                        => (frame'[p].pc = "idle" /\ sink' = sink)]_vars

\* C9's case: a logging call is about to be dropped while the sink holds a line.
C9_Witness ==
    \E p \in Procs :
        /\ frame[p].pc = "gate" /\ frame[p].level[1] > frame[p].ret[1]
        /\ sink # <<>>

\* C10: when no set call is in progress the global level is the argument of the
\* set call that took the write lock last, and a get or logging call that began
\* in such a state, with no set call begun since, reads that value.
C10_LastWriterWins ==
    /\ (~SetInProgress(Procs) /\ lastLockArg # <<>>) => globalLogLevel = lastLockArg[1]
    /\ \A p \in Procs :
           (quiet[p] /\ lastLockArg # <<>> /\ frame[p].ret # <<>>)
               => frame[p].ret = lastLockArg

\* C10's case: set calls that overlapped have all returned, and a logging call
\* that began afterwards is at its gate.
C10_Witness ==
    /\ overlap /\ ~SetInProgress(Procs)
    /\ \E p \in Procs : quiet[p] /\ frame[p].pc = "gate"

\* All goroutines have issued their MsgsPerCaller logging calls and returned.
AllDone == \A p \in Procs : seq[p] = MsgsPerCaller /\ frame[p].pc = "idle"

\* The numbers the messages of one goroutine carry.
MsgNumbers ==
    0 .. ((IF MsgsPerCaller > MaxLogCalls THEN MsgsPerCaller ELSE MaxLogCalls) - 1)

\* Every complete line of the sink is a whole line of some call.
LinesWellFormed ==
    \A i \in NL(sink) :
        \E lv \in Levels, p \in Procs, n \in MsgNumbers :
            IsLineOf(LineEnding(sink, i), logger.flags,
                     Form(lv, logger.component, MsgText(p, n)))

\* C3: with a threshold that admits every level, every complete line of the
\* sink is a whole line of some call at all times, and once NumProcs callers
\* have each made MsgsPerCaller logging calls the sink holds exactly
\* NumProcs * MsgsPerCaller lines, one for each message.
C3_AllLinesIntact ==
    /\ LinesWellFormed
    /\ AllDone =>
           /\ Cardinality(NL(sink)) = NumProcs * MsgsPerCaller
           /\ sink[Len(sink)] = "\n"
           /\ \A p \in Procs, n \in 0 .. (MsgsPerCaller - 1) :
                  Cardinality({i \in NL(sink) :
                      HasSuffix(LineEnding(sink, i), <<" ">> \o MsgText(p, n))}) = 1

\* C3's case: all callers are done, with lines long enough to take two writes.
C3_Witness == AllDone /\ logger.flags = LstdFlags

\* The last complete line of the sink.
LastLine ==
    LineEnding(sink, CHOOSE i \in NL(sink) : \A k \in NL(sink) : k <= i)

\* C7 as stated: every line is [LEVEL][component] message, or [LEVEL] message
\* for the empty component, and nothing else; the line a call has just written
\* names the level of the method that was called.
C7_FormOnly ==
    /\ \A i \in NL(sink) :
           \E lv \in Levels, p \in Procs, n \in MsgNumbers :
               LineEnding(sink, i) = Form(lv, logger.component, MsgText(p, n))
    /\ \A p \in Procs :
           frame[p].pc = "outunlock"
               => LastLine = Form(frame[p].level[1], logger.component,
                                  MsgText(frame[p].params[1], frame[p].params[2]))

\* C7, amended: every line is [LEVEL][component] message, or [LEVEL] message for
\* the empty component, after the date and time stamp when the Logger was built
\* with log.LstdFlags (NewLogger) and with nothing before it when it was built
\* with no flags; the line a call has just written names the level of the
\* method that was called.
C7_FormAfterStamp ==
    /\ LinesWellFormed
    /\ \A p \in Procs :
           frame[p].pc = "outunlock"
               => IsLineOf(LastLine, logger.flags,
                           Form(frame[p].level[1], logger.component,
                                MsgText(frame[p].params[1], frame[p].params[2])))

\* C7's case: a Logger with the empty component, built by NewLogger, has
\* written a line through Debug.
C7_Witness ==
    /\ logger.component = <<>> /\ logger.flags = LstdFlags
    /\ \E p \in Procs : frame[p].pc = "outunlock" /\ frame[p].level = <<DEBUG>>

\* The value of a digit character.
DigitVal(c) == (CHOOSE k \in 1 .. 10 : Digits[k] = c) - 1

\* The number a sequence of digits denotes.
RECURSIVE Value(_)
Value(d) ==
    IF d = <<>> THEN 0
    ELSE 10 * Value(SubSeq(d, 1, Len(d) - 1)) + DigitVal(d[Len(d)])

\* d is the decimal numeral of v: digits only after an optional minus sign, no
\* leading zero, a minus sign exactly for negative v.
IsDecimalOf(d, v) ==
    LET neg == Len(d) >= 1 /\ d[1] = "-"
        digs == IF neg THEN Tail(d) ELSE d
    IN  /\ neg <=> v < 0
        /\ Len(digs) >= 1
        /\ \A k \in 1 .. Len(digs) : IsDigit(digs[k])
        /\ Len(digs) > 1 => digs[1] # "0"
        /\ Value(digs) = (IF v < 0 THEN 0 - v ELSE v)

\* C8: String returns the five names for 0 .. 4 and, for every other value V,
\* UNKNOWN_LOG_LEVEL(V) with V in decimal.
C8_StringTotal ==
    strOut # <<>> =>
        IF strIn \in 0 .. 4 THEN strOut = LevelName[strIn + 1]
        ELSE /\ Len(strOut) > 19
             /\ SubSeq(strOut, 1, 18) =
                    <<"U", "N", "K", "N", "O", "W", "N", "_", "L", "O", "G", "_",
                      "L", "E", "V", "E", "L", "(">>
             /\ strOut[Len(strOut)] = ")"
             /\ IsDecimalOf(SubSeq(strOut, 19, Len(strOut) - 1), strIn)

\* C8's case: String has been applied to a negative value of several digits.
C8_Witness == strOut # <<>> /\ strIn < 0 - 9

=============================================================================
